---- MODULE Spec2Model ----
(***************************************************************************)
(* USD/ILS rate dashboard (src/main.py): the data-acquisition fallback     *)
(* chain with its cache file, and the moving-average crossover backtest.   *)
(*                                                                         *)
(* Rates are integers in units of 0.0001 (the code rounds every rate to 4  *)
(* decimals), dates and timestamps are integer clock readings.  A Python   *)
(* value that may be None is a record [none, v]; truthiness (`if rate:`)   *)
(* is Truthy.  A function body that may raise returns [raised, val].       *)
(***************************************************************************)
EXTENDS Integers, Sequences, FiniteSets, TLC

VARIABLES
    now,          \* datetime.now(), as a clock reading
    cacheFile,    \* content of CACHE_FILE on disk
    pc,           \* pc[p]: position of refresh p inside fetch_real_exchange_rates
    current,      \* current[p]: (current_rate, current_date, status_msg), line 144
    df,           \* df[p]: the history frame of line 147, or None
    calls,        \* calls[p]: the calls refresh p has made in this cycle, in order
    ret,          \* ret[p]: the value fetch_real_exchange_rates returned
    btpc,         \* position inside calculate_trading_profit
    rates,        \* df['Rate'] of the frame passed to calculate_trading_profit
    SMA_7,        \* df['SMA_7'], line 216
    SMA_14,       \* df['SMA_14'], line 217
    index,        \* the row the loop of line 219 is at (the code's index + 1)
    usd_balance,
    nis_balance,
    trades,       \* the trades list returned
    portfolio_value,  \* the portfolio_value list returned
    profit_usd,   \* the profit returned
    request,      \* one call of a rate source: the function and the HTTP response
    reply         \* what that call gave back to its caller

acqVars == <<now, cacheFile, pc, current, df, calls, ret>>
btVars == <<btpc, rates, SMA_7, SMA_14, index, usd_balance, nis_balance,
            trades, portfolio_value, profit_usd>>
srcVars == <<request, reply>>
vars == <<now, cacheFile, pc, current, df, calls, ret,
          btpc, rates, SMA_7, SMA_14, index, usd_balance, nis_balance,
          trades, portfolio_value, profit_usd, request, reply>>

(***************************************************************************)
(* Bounds                                                                  *)
(***************************************************************************)
MaxNow == 1
MaxLen == 10
MaxIndLen == 15

Procs == {1, 2}        \* two clicks of refresh_btn being served at once
SeqProcs == {1}        \* one refresh at a time

(***************************************************************************)
(* Python values                                                           *)
(***************************************************************************)
None == [none |-> TRUE, v |-> 0]
Val(x) == [none |-> FALSE, v |-> x]
Truthy(x) == ~x.none /\ x.v # 0         \* of a number
TruthyStr(x) == ~x.none                  \* of a date string, never empty here

Raise == [raised |-> TRUE, val |-> None]
Return(x) == [raised |-> FALSE, val |-> x]

NoneTriple == [rate |-> None, date |-> None, source |-> "None"]
Triple(r, d, s) == [rate |-> r, date |-> d, source |-> s]

(***************************************************************************)
(* What a provider may answer to one HTTP GET: the transport raises        *)
(* (connection error, timeout), or a status code comes back with a body    *)
(* that may or may not parse, may or may not carry the success flag, the   *)
(* rate and the date.                                                      *)
(***************************************************************************)
CurRates == {31000}
ProviderDates == {9}

\* no response carries a status, no error status a body, no unparsed body fields
Shaped(r) ==
    /\ r.exc => r.status = 500
    /\ r.status = 500 => ~r.wellformed
    /\ ~r.wellformed => ~r.success

CurrentResponses ==
    {r \in [exc : BOOLEAN, status : {200, 500}, wellformed : BOOLEAN,
            success : BOOLEAN,
            rate : {None} \cup {Val(x) : x \in CurRates},
            date : {None} \cup {Val(d) : d \in ProviderDates}] :
        Shaped(r) /\ (~r.wellformed => r.rate.none /\ r.date.none)}

\* lines 18-38, the try body
BankOfIsraelBody(resp, today) ==
    IF resp.exc THEN Raise                                  \* requests.get
    ELSE IF resp.status # 200 THEN Return(NoneTriple)
    ELSE IF ~resp.wellformed THEN Raise                     \* ET.fromstring
    ELSE IF resp.rate.none THEN Raise                       \* rate.text on None
    ELSE Return(Triple(resp.rate,
                       IF resp.date.none THEN Val(today) ELSE resp.date,
                       "Bank of Israel"))

\* fetch_from_bank_of_israel without its try/except
FetchBankOfIsraelNoExcept(resp, today) ==
    BankOfIsraelBody(resp, today)

fetch_from_bank_of_israel(resp, today) ==
    LET r == BankOfIsraelBody(resp, today)
    IN  IF r.raised THEN Return(NoneTriple) ELSE r

\* lines 47-59
ExchangerateHostBody(resp, today) ==
    IF resp.exc THEN Raise
    ELSE IF resp.status # 200 THEN Return(NoneTriple)
    ELSE IF ~resp.wellformed THEN Raise                     \* response.json()
    ELSE IF resp.success /\ ~resp.rate.none
         THEN Return(Triple(resp.rate,
                            IF resp.date.none THEN Val(today) ELSE resp.date,
                            "ExchangeRate.host"))
         ELSE Return(NoneTriple)

fetch_from_exchangerate_host(resp, today) ==
    LET r == ExchangerateHostBody(resp, today)
    IN  IF r.raised THEN Return(NoneTriple) ELSE r

\* lines 68-79: no success flag is looked at
ExchangerateApiBody(resp, today) ==
    IF resp.exc THEN Raise
    ELSE IF resp.status # 200 THEN Return(NoneTriple)
    ELSE IF ~resp.wellformed THEN Raise
    ELSE IF ~resp.rate.none
         THEN Return(Triple(resp.rate,
                            IF resp.date.none THEN Val(today) ELSE resp.date,
                            "ExchangeRate-API"))
         ELSE Return(NoneTriple)

fetch_from_exchangerate_api(resp, today) ==
    LET r == ExchangerateApiBody(resp, today)
    IN  IF r.raised THEN Return(NoneTriple) ELSE r

(***************************************************************************)
(* The history endpoint: a date-keyed map, each date with or without 'ILS' *)
(***************************************************************************)
HistEntries ==
    {[date |-> 1, ils |-> None], [date |-> 1, ils |-> Val(30000)],
     [date |-> 2, ils |-> Val(30500)]}
HistPayloads ==
    {m \in SUBSET HistEntries : \A a, b \in m : a.date = b.date => a = b}

HistoryResponses ==
    {r \in [exc : BOOLEAN, status : {200, 500}, wellformed : BOOLEAN,
            success : BOOLEAN, has_rates : BOOLEAN, rates : HistPayloads] :
        /\ Shaped(r)
        /\ ~r.wellformed => ~r.has_rates
        /\ ~r.has_rates => r.rates = {}}

\* sorted(hist_data['rates'].items()), keeping the dates that carry 'ILS'
RECURSIVE SortedRows(_)
SortedRows(m) ==
    IF m = {} THEN <<>>
    ELSE LET first == CHOOSE a \in m : \A b \in m : a.date <= b.date
             rest == SortedRows(m \ {first})
         IN  IF first.ils.none THEN rest
             ELSE <<[Date |-> first.date, Rate |-> first.ils.v]>> \o rest

NoFrame == [none |-> TRUE, rows |-> <<>>]
Frame(rows) == [none |-> FALSE, rows |-> rows]

HistNone == [df |-> NoFrame, msg |-> "None"]

\* lines 88-111
HistoricalBody(resp) ==
    IF resp.exc THEN Raise
    ELSE IF resp.status # 200 THEN Return(HistNone)
    ELSE IF ~resp.wellformed THEN Raise
    ELSE IF resp.success /\ resp.has_rates
         THEN LET data == SortedRows(resp.rates)
              IN  IF data # <<>>
                  THEN Return([df |-> Frame(data), msg |-> "Historical data (30 days)"])
                  ELSE Return(HistNone)
         ELSE Return(HistNone)

fetch_historical_data(resp) ==
    LET r == HistoricalBody(resp)
    IN  IF r.raised THEN Return(HistNone) ELSE r

(***************************************************************************)
(* Status labels.  An f-string is kept as its parts: the icon, the text,   *)
(* the suffix and, for the cache label, the age it formats.                *)
(***************************************************************************)
Status(icon, text, suffix, age) ==
    [icon |-> icon, text |-> text, suffix |-> suffix, age |-> age]

OfficialStatus(source) == Status("check", source, "(Official)", None)    \* line 124
SourceStatus(source) == Status("check", source, "", None)                \* lines 129, 134
AllUnavailable == Status("cross", "All APIs unavailable", "", None)      \* line 136
CachedStatus(age) == Status("warning", "Using cached data", "hours old", Val(age))
DemoStatus == Status("chart", "Demo mode (realistic rates)", "", None)   \* line 203

NoCurrent == [rate |-> None, date |-> None, status |-> AllUnavailable]

(***************************************************************************)
(* get_current_rate, one provider call at a time.  `stage` is the provider *)
(* just called, r what it returned; the result is where control goes next  *)
(* and the triple get_current_rate holds.  A provider that raised would    *)
(* leave through the except clause of fetch_real_exchange_rates (line 166) *)
(***************************************************************************)
\* get_current_rate without the early return after the Bank of Israel
GetCurrentRateNoEarlyReturn(stage, r) ==
    IF r.raised
    THEN [pc |-> "load", current |-> NoCurrent]
    ELSE IF stage = "boi" THEN [pc |-> "host", current |-> NoCurrent]
    ELSE IF Truthy(r.val.rate)
    THEN [pc |-> "hist",
          current |-> [rate |-> r.val.rate, date |-> r.val.date,
                       status |-> SourceStatus(r.val.source)]]
    ELSE IF stage = "host" THEN [pc |-> "api", current |-> NoCurrent]
    ELSE [pc |-> "hist", current |-> NoCurrent]

\* get_current_rate going round again until some provider answers
GetCurrentRateRetries(stage, r) ==
    IF r.raised
    THEN [pc |-> "load", current |-> NoCurrent]
    ELSE IF Truthy(r.val.rate)
    THEN [pc |-> "hist",
          current |-> [rate |-> r.val.rate, date |-> r.val.date,
                       status |-> IF stage = "boi" THEN OfficialStatus(r.val.source)
                                  ELSE SourceStatus(r.val.source)]]
    ELSE IF stage = "boi" THEN [pc |-> "host", current |-> NoCurrent]
    ELSE IF stage = "host" THEN [pc |-> "api", current |-> NoCurrent]
    ELSE [pc |-> "boi", current |-> NoCurrent]

get_current_rate(stage, r) ==
    IF r.raised
    THEN [pc |-> "load", current |-> NoCurrent]
    ELSE IF Truthy(r.val.rate)
    THEN [pc |-> "hist",
          current |-> [rate |-> r.val.rate, date |-> r.val.date,
                       status |-> IF stage = "boi" THEN OfficialStatus(r.val.source)
                                  ELSE SourceStatus(r.val.source)]]
    ELSE IF stage = "boi" THEN [pc |-> "host", current |-> NoCurrent]
    ELSE IF stage = "host" THEN [pc |-> "api", current |-> NoCurrent]
    ELSE [pc |-> "hist", current |-> NoCurrent]

(***************************************************************************)
(* The cache file                                                          *)
(***************************************************************************)
Missing == [kind |-> "missing"]
Garbage == [kind |-> "garbage"]      \* bytes that are not JSON
\* truncated by the open(.., 'w') of refresh p, whose dump is not through
Partial(p) == [kind |-> "partial", by |-> p]
Json(keys, ts, data, rate, date) ==
    [kind |-> "json", keys |-> keys, timestamp |-> ts, data |-> data,
     current_rate |-> rate, current_date |-> date]

IsoTime(t) == [iso |-> TRUE, t |-> t]
NotADate == [iso |-> FALSE, t |-> 0]
AllKeys == {"timestamp", "data", "current_rate", "current_date"}

Last(s) == s[Len(s)]

\* lines 151-156
cache_data(frame, cur, today) ==
    Json(AllKeys, IsoTime(today), frame.rows,
         IF Truthy(cur.rate) THEN cur.rate.v ELSE Last(frame.rows).Rate,
         IF TruthyStr(cur.date) THEN cur.date.v ELSE Last(frame.rows).Date)

OldRows == <<[Date |-> 0, Rate |-> 30700]>>
OldRecord == Json(AllKeys, IsoTime(0), OldRows, 30700, 0)

InitialCacheFiles ==
    {Missing, Garbage, OldRecord,
     Json(AllKeys, NotADate, OldRows, 30700, 0)}
    \cup {Json(AllKeys \ {k}, IsoTime(0), OldRows, 30700, 0) :
            k \in {"timestamp", "data", "current_rate"}}

(***************************************************************************)
(* generate_demo_data, lines 186-203                                       *)
(***************************************************************************)
base_rate == 30900
DemoDays == 30

DemoRate(i) == base_rate + 5 * (i - 15) + 50 * ((i % 5) - 2)

DemoRows(today) ==
    [k \in 1..DemoDays |->
        [Date |-> (today - DemoDays) + (k - 1), Rate |-> DemoRate(k - 1)]]

Result(rows, rate, status, tier) ==
    [df |-> rows, current_rate |-> rate, status |-> status, tier |-> tier]

\* generate_demo_data with rates that move with the clock
GenerateDemoClockSeeded(today) ==
    LET data == [k \in 1..DemoDays |->
                    [Date |-> (today - DemoDays) + (k - 1),
                     Rate |-> DemoRate(k - 1) + today]]
    IN  Result(data, Last(data).Rate, DemoStatus, "demo")

generate_demo_data(today) ==
    LET data == DemoRows(today)
    IN  Result(data, Last(data).Rate, DemoStatus, "demo")

(***************************************************************************)
(* load_cached_data, lines 170-184                                         *)
(***************************************************************************)
\* lines 174-179, the try body
LoadBody(file, today) ==
    IF file.kind # "json" THEN Raise                          \* json.load
    ELSE IF "data" \notin file.keys THEN Raise                \* cache['data']
    ELSE IF "timestamp" \notin file.keys THEN Raise           \* cache['timestamp']
    ELSE IF ~file.timestamp.iso THEN Raise                    \* fromisoformat
    ELSE IF "current_rate" \notin file.keys THEN Raise        \* cache['current_rate']
    ELSE Return(Result(file.data, file.current_rate,
                       CachedStatus(today - file.timestamp.t), "cache"))

NoResult == Result(<<>>, 0, [icon |-> "none"], "none")

\* load_cached_data without the final return generate_demo_data()
LoadCachedNoFallback(file, today) ==
    IF file.kind # "missing"
    THEN LET r == LoadBody(file, today)
         IN  IF r.raised THEN NoResult ELSE r.val
    ELSE NoResult

\* load_cached_data with `except json.JSONDecodeError:` for the bare except
LoadCachedNarrowExcept(file, today) ==
    IF file.kind # "missing"
    THEN LET r == LoadBody(file, today)
         IN  IF r.raised
             THEN IF file.kind # "json" THEN generate_demo_data(today) ELSE NoResult
             ELSE r.val
    ELSE generate_demo_data(today)

load_cached_data(file, today) ==
    IF file.kind # "missing"
    THEN LET r == LoadBody(file, today)
         IN  IF r.raised THEN generate_demo_data(today) ELSE r.val
    ELSE generate_demo_data(today)

\* lines 160-161
LiveResult(frame, cur) ==
    Result(frame.rows,
           IF Truthy(cur.rate) THEN cur.rate.v ELSE Last(frame.rows).Rate,
           cur.status, "live")

(***************************************************************************)
(* fetch_real_exchange_rates, lines 138-168, as the steps of refresh p     *)
(***************************************************************************)
Call(fn, res) == [fn |-> fn, res |-> res]

AcqIdle ==
    /\ pc = [p \in Procs |-> "idle"]
    /\ current = [p \in Procs |-> NoCurrent]
    /\ df = [p \in Procs |-> NoFrame]
    /\ calls = [p \in Procs |-> <<>>]
    /\ ret = [p \in Procs |-> NoResult]

\* refresh_dashboard calls fetch_real_exchange_rates(30), line 319
Start(p) ==
    /\ pc[p] \in {"idle", "done"}
    /\ pc' = [pc EXCEPT ![p] = "boi"]
    /\ current' = [current EXCEPT ![p] = NoCurrent]
    /\ df' = [df EXCEPT ![p] = NoFrame]
    /\ calls' = [calls EXCEPT ![p] = <<>>]
    /\ ret' = [ret EXCEPT ![p] = NoResult]
    /\ UNCHANGED <<now, cacheFile>>
    /\ UNCHANGED <<btVars, srcVars>>

Provider(p, stage, fn, r) ==
    LET s == get_current_rate(stage, r)
    IN  /\ pc' = [pc EXCEPT ![p] = s.pc]
        /\ current' = [current EXCEPT ![p] = s.current]
        /\ calls' = [calls EXCEPT ![p] = Append(@, Call(fn, r))]
        /\ UNCHANGED <<now, cacheFile, df, ret>>
        /\ UNCHANGED <<btVars, srcVars>>

\* line 122
CallBankOfIsrael(p) ==
    /\ pc[p] = "boi"
    /\ \E resp \in CurrentResponses :
          Provider(p, "boi", "fetch_from_bank_of_israel",
                   fetch_from_bank_of_israel(resp, now))

\* line 127
CallExchangerateHost(p) ==
    /\ pc[p] = "host"
    /\ \E resp \in CurrentResponses :
          Provider(p, "host", "fetch_from_exchangerate_host",
                   fetch_from_exchangerate_host(resp, now))

\* line 132
CallExchangerateApi(p) ==
    /\ pc[p] = "api"
    /\ \E resp \in CurrentResponses :
          Provider(p, "api", "fetch_from_exchangerate_api",
                   fetch_from_exchangerate_api(resp, now))

\* line 149: where control goes with the history result
AfterHistory(r) ==
    IF r.raised THEN "load"
    ELSE IF ~r.val.df.none /\ r.val.df.rows # <<>> THEN "open"
    ELSE "load"

\* lines 147-149, 164
CallHistory(p) ==
    /\ pc[p] = "hist"
    /\ \E resp \in HistoryResponses :
          LET r == fetch_historical_data(resp)
          IN  /\ pc' = [pc EXCEPT ![p] = AfterHistory(r)]
              /\ df' = [df EXCEPT ![p] = IF r.raised THEN NoFrame ELSE r.val.df]
              /\ calls' = [calls EXCEPT ![p] = Append(@, Call("fetch_historical_data", r))]
    /\ UNCHANGED <<now, cacheFile, current, ret>>
    /\ UNCHANGED <<btVars, srcVars>>

\* line 157: open(CACHE_FILE, 'w') truncates the file, or raises OSError and
\* control goes to the except clause of line 166
OpenCache(p) ==
    /\ pc[p] = "open"
    /\ \/ /\ cacheFile' = Partial(p)
          /\ pc' = [pc EXCEPT ![p] = "dump"]
          /\ calls' = [calls EXCEPT ![p] = Append(@, Call("open", Return(None)))]
       \/ /\ cacheFile' = cacheFile
          /\ pc' = [pc EXCEPT ![p] = "load"]
          /\ calls' = [calls EXCEPT ![p] = Append(@, Call("open", Raise))]
    /\ UNCHANGED <<now, current, df, ret>>
    /\ UNCHANGED <<btVars, srcVars>>

\* What the file holds once json.dump and close are through: the record, unless
\* another refresh wrote to the file since this one truncated it (two writers,
\* each at its own offset: the bytes may interleave).
DumpOutcomes(p) ==
    LET rec == cache_data(df[p], current[p], now)
    IN  IF cacheFile = Partial(p) /\ \A q \in Procs \ {p} : pc[q] # "dump"
        THEN {rec}
        ELSE {rec, Garbage}

\* lines 158-161: json.dump completes and the live result is returned, or it
\* raises part way (OSError, TypeError) and control goes to line 166
DumpCache(p) ==
    /\ pc[p] = "dump"
    /\ \/ /\ cacheFile' \in DumpOutcomes(p)
          /\ ret' = [ret EXCEPT ![p] = LiveResult(df[p], current[p])]
          /\ pc' = [pc EXCEPT ![p] = "done"]
          /\ calls' = [calls EXCEPT ![p] = Append(@, Call("json.dump", Return(None)))]
       \/ /\ cacheFile' = IF cacheFile.kind = "partial" THEN cacheFile ELSE Garbage
          /\ ret' = ret
          /\ pc' = [pc EXCEPT ![p] = "load"]
          /\ calls' = [calls EXCEPT ![p] = Append(@, Call("json.dump", Raise))]
    /\ UNCHANGED <<now, current, df>>
    /\ UNCHANGED <<btVars, srcVars>>

\* lines 164, 168: return load_cached_data(), the demo generator inside it
LoadCache(p) ==
    /\ pc[p] = "load"
    /\ LET r == load_cached_data(cacheFile, now)
       IN  /\ ret' = [ret EXCEPT ![p] = r]
           /\ calls' = [calls EXCEPT ![p] =
                  IF r.tier = "demo"
                  THEN @ \o <<Call("load_cached_data", Return(None)),
                               Call("generate_demo_data", Return(None))>>
                  ELSE Append(@, Call("load_cached_data", Return(None)))]
    /\ pc' = [pc EXCEPT ![p] = "done"]
    /\ UNCHANGED <<now, cacheFile, current, df>>
    /\ UNCHANGED <<btVars, srcVars>>

\* time passes
Tick ==
    /\ now < MaxNow
    /\ now' = now + 1
    /\ UNCHANGED <<cacheFile, pc, current, df, calls, ret>>
    /\ UNCHANGED <<btVars, srcVars>>

(***************************************************************************)
(* calculate_trading_profit, lines 206-264.  Numbers are fractions [n, d]  *)
(* in lowest terms.  The code holds them as floats.  For the averages the  *)
(* fractions are exact: with the small integer rates drawn here the window *)
(* sums are exact and one correctly rounded division keeps the order of    *)
(* two averages, so the crossover tests agree.  The balances and portfolio *)
(* values are rounded after every operation, as floats are.  Three rate    *)
(* values are the fewest for which the two averages meet and part again    *)
(* while a position is open.  Index i is the code's index + 1.             *)
(***************************************************************************)
RateVals == {1, 2, 3}
initial_usd == 1000

RECURSIVE GCD(_, _)
GCD(a, b) == IF b = 0 THEN a ELSE GCD(b, a % b)

Frac(n, d) == LET g == GCD(n, d) IN [n |-> n \div g, d |-> d \div g]
FracAdd(a, b) == Frac(a.n * b.d + b.n * a.d, a.d * b.d)
FracMul(a, k) == Frac(a.n * k, a.d)
FracDiv(a, k) == Frac(a.n, a.d * k)
FracLess(a, b) == a.n * b.d < b.n * a.d
Zero == Frac(0, 1)

\* A Python float keeps a fixed number of significant bits (53 in the code,
\* Mantissa here) and every operation rounds its exact result to the nearest
\* such number, ties to the even one.  Scaled(n, d, e): n/d * 2^e is the value,
\* brought to 2^(Mantissa-1) <= n/d < 2^Mantissa.
Mantissa == 8

RECURSIVE Pow2(_)
Pow2(k) == IF k = 0 THEN 1 ELSE 2 * Pow2(k - 1)

MantissaTop == Pow2(Mantissa)
MantissaLow == Pow2(Mantissa - 1)

RECURSIVE Scaled(_, _, _)
Scaled(n, d, e) ==
    IF n >= MantissaTop * d THEN Scaled(n, 2 * d, e + 1)
    ELSE IF n < MantissaLow * d THEN Scaled(2 * n, d, e - 1)
    ELSE [n |-> n, d |-> d, e |-> e]

Float(x) ==
    IF x.n = 0 THEN Zero
    ELSE LET s == Scaled(x.n, x.d, 0)
             q == s.n \div s.d
             r == s.n % s.d
             m == IF 2 * r > s.d \/ (2 * r = s.d /\ q % 2 = 1) THEN q + 1 ELSE q
         IN  IF s.e >= 0 THEN Frac(m * Pow2(s.e), 1) ELSE Frac(m, Pow2(0 - s.e))

FloatAdd(a, b) == Float(FracAdd(a, b))      \* a + b
FloatMul(a, k) == Float(FracMul(a, k))      \* a * k
FloatDiv(a, k) == Float(FracDiv(a, k))      \* a / k

RECURSIVE SumRange(_, _, _)
SumRange(s, lo, hi) == IF lo > hi THEN 0 ELSE s[hi] + SumRange(s, lo, hi - 1)

Max(a, b) == IF a >= b THEN a ELSE b

\* rolling(window, min_periods=1, center=True): the window around row i
RollingMeanCentered(s, window, i) ==
    LET lo == Max(1, i - (window \div 2))
        hi == IF i + ((window - 1) \div 2) > Len(s) THEN Len(s)
              ELSE i + ((window - 1) \div 2)
    IN  Frac(SumRange(s, lo, hi), hi - lo + 1)

\* the mean over a full window, the rows before the first taken as 0
RollingMeanZeroPadded(s, window, i) ==
    LET lo == Max(1, i - window + 1)
    IN  Frac(SumRange(s, lo, i), window)

\* Series.rolling(window, min_periods=1).mean() at row i
RollingMean(s, window, i) ==
    LET lo == Max(1, i - window + 1)
    IN  Frac(SumRange(s, lo, i), i - lo + 1)

Rolling(s, window) == [i \in 1..Len(s) |-> RollingMean(s, window, i)]

\* lines 210-213
LoopStart ==
    [usd_balance |-> Frac(initial_usd, 1), nis_balance |-> Zero,
     trades |-> <<>>, portfolio_value |-> <<>>]

Trade(date, action, rate, usd, nis) ==
    [date |-> date, action |-> action, rate |-> rate,
     amount_usd |-> usd, amount_nis |-> nis]

\* the BUY test without `usd_balance > 0`
BuySignalNoBalanceCheck(s7, s14, i, st) ==
    /\ FracLess(s14[i], s7[i])
    /\ ~FracLess(s14[i - 1], s7[i - 1])

\* the BUY test with >= for >
BuySignalNonStrict(s7, s14, i, st) ==
    /\ ~FracLess(s7[i], s14[i])
    /\ ~FracLess(s14[i - 1], s7[i - 1])
    /\ FracLess(Zero, st.usd_balance)

\* lines 228-230
BuySignal(s7, s14, i, st) ==
    /\ FracLess(s14[i], s7[i])
    /\ ~FracLess(s14[i - 1], s7[i - 1])
    /\ FracLess(Zero, st.usd_balance)

\* the SELL test with <= for <
SellSignalNonStrict(s7, s14, i, st) ==
    /\ ~FracLess(s14[i], s7[i])
    /\ ~FracLess(s7[i - 1], s14[i - 1])
    /\ FracLess(Zero, st.nis_balance)

\* lines 242-244
SellSignal(s7, s14, i, st) ==
    /\ FracLess(s7[i], s14[i])
    /\ ~FracLess(s7[i - 1], s14[i - 1])
    /\ FracLess(Zero, st.nis_balance)

\* the trade of row i without `usd_balance = 0` after a BUY
CrossoverKeepsUsd(s, s7, s14, i, st) ==
    IF i > 1 /\ BuySignal(s7, s14, i, st)
    THEN LET nis == FloatMul(st.usd_balance, s[i])
         IN  [st EXCEPT !.nis_balance = nis,
                        !.trades = Append(@, Trade(i, "BUY", s[i], st.usd_balance, nis))]
    ELSE IF i > 1 /\ SellSignal(s7, s14, i, st)
    THEN LET usd == FloatDiv(st.nis_balance, s[i])
         IN  [st EXCEPT !.usd_balance = usd, !.nis_balance = Zero,
                        !.trades = Append(@, Trade(i, "SELL", s[i], usd, st.nis_balance))]
    ELSE st

\* lines 223-253: the balances and trades after row i
Crossover(s, s7, s14, i, st) ==
    IF i > 1 /\ BuySignal(s7, s14, i, st)
    THEN LET nis == FloatMul(st.usd_balance, s[i])
         IN  [st EXCEPT !.nis_balance = nis, !.usd_balance = Zero,
                        !.trades = Append(@, Trade(i, "BUY", s[i], st.usd_balance, nis))]
    ELSE IF i > 1 /\ SellSignal(s7, s14, i, st)
    THEN LET usd == FloatDiv(st.nis_balance, s[i])
         IN  [st EXCEPT !.usd_balance = usd, !.nis_balance = Zero,
                        !.trades = Append(@, Trade(i, "SELL", s[i], usd, st.nis_balance))]
    ELSE st

\* the loop body valuing the ILS balance at the rate of the row before
LoopBodyMarksAtPreviousRate(s, s7, s14, i, st) ==
    LET t == Crossover(s, s7, s14, i, st)
    IN  [t EXCEPT !.portfolio_value =
            Append(@, FloatAdd(t.usd_balance,
                               FloatDiv(t.nis_balance, IF i > 1 THEN s[i - 1] ELSE s[i])))]

\* the loop body with a `continue` after a trade: no value for that row
LoopBodySkipsOnTrade(s, s7, s14, i, st) ==
    LET t == Crossover(s, s7, s14, i, st)
    IN  IF t.trades # st.trades THEN t
        ELSE [t EXCEPT !.portfolio_value =
                 Append(@, FloatAdd(t.usd_balance, FloatDiv(t.nis_balance, s[i])))]

\* lines 220-257: one pass of the loop body, row i
LoopBody(s, s7, s14, i, st) ==
    LET t == Crossover(s, s7, s14, i, st)
    IN  [t EXCEPT !.portfolio_value =
            Append(@, FloatAdd(t.usd_balance, FloatDiv(t.nis_balance, s[i])))]

BtStart(s) ==
    /\ btpc = "ready"
    /\ rates = s
    /\ SMA_7 = <<>>
    /\ SMA_14 = <<>>
    /\ index = 0
    /\ usd_balance = Zero
    /\ nis_balance = Zero
    /\ trades = <<>>
    /\ portfolio_value = <<>>
    /\ profit_usd = Zero

(***************************************************************************)
(* One call of one rate source, lines 14-114                               *)
(***************************************************************************)
ProviderNames ==
    {"fetch_from_bank_of_israel", "fetch_from_exchangerate_host",
     "fetch_from_exchangerate_api"}

Requests ==
    [fn : ProviderNames, resp : CurrentResponses]
    \cup [fn : {"fetch_historical_data"}, resp : HistoryResponses]

NoRequest == [fn |-> "none"]
NoReply == [done |-> FALSE]

SrcIdle == request = NoRequest /\ reply = NoReply

Source(fn, resp, today) ==
    CASE fn = "fetch_from_bank_of_israel" -> fetch_from_bank_of_israel(resp, today)
      [] fn = "fetch_from_exchangerate_host" -> fetch_from_exchangerate_host(resp, today)
      [] fn = "fetch_from_exchangerate_api" -> fetch_from_exchangerate_api(resp, today)
      [] fn = "fetch_historical_data" -> fetch_historical_data(resp)

CallSource ==
    /\ request # NoRequest
    /\ ~reply.done
    /\ LET r == Source(request.fn, request.resp, now)
       IN  reply' = [done |-> TRUE, raised |-> r.raised, val |-> r.val]
    /\ UNCHANGED request
    /\ UNCHANGED acqVars
    /\ UNCHANGED btVars

\* five days of rates in units of 0.0001: 3.00, 3.05, 3.10, 3.02, 2.95
FiveDays == <<30000, 30500, 31000, 30200, 29500>>

BtInit ==
    \E s \in UNION {[1..n -> RateVals] : n \in 1..MaxLen} \cup {FiveDays} : BtStart(s)

\* lines 210-217: the balances, the lists and the two indicator columns
Indicators ==
    /\ btpc = "ready"
    /\ usd_balance' = LoopStart.usd_balance
    /\ nis_balance' = LoopStart.nis_balance
    /\ trades' = LoopStart.trades
    /\ portfolio_value' = LoopStart.portfolio_value
    /\ SMA_7' = Rolling(rates, 7)
    /\ SMA_14' = Rolling(rates, 14)
    /\ index' = 1
    /\ btpc' = "loop"
    /\ UNCHANGED <<rates, profit_usd>>
    /\ UNCHANGED acqVars
    /\ UNCHANGED srcVars

\* lines 219-257: the loop body on row index
LoopRow ==
    /\ btpc = "loop"
    /\ index <= Len(rates)
    /\ \E st \in {LoopBody(rates, SMA_7, SMA_14, index,
                          [usd_balance |-> usd_balance, nis_balance |-> nis_balance,
                           trades |-> trades, portfolio_value |-> portfolio_value])} :
           /\ usd_balance' = st.usd_balance
           /\ nis_balance' = st.nis_balance
           /\ trades' = st.trades
           /\ portfolio_value' = st.portfolio_value
    /\ index' = index + 1
    /\ UNCHANGED <<btpc, rates, SMA_7, SMA_14, profit_usd>>
    /\ UNCHANGED acqVars
    /\ UNCHANGED srcVars

\* lines 259-264.  profit_usd is kept as final_usd, the profit plus initial_usd
Finish ==
    /\ btpc = "loop"
    /\ index > Len(rates)
    /\ profit_usd' = FloatAdd(usd_balance, FloatDiv(nis_balance, Last(rates)))
    /\ btpc' = "done"
    /\ UNCHANGED <<rates, SMA_7, SMA_14, index, usd_balance, nis_balance,
                   trades, portfolio_value>>
    /\ UNCHANGED acqVars
    /\ UNCHANGED srcVars

Init ==
    /\ now = 0
    /\ cacheFile \in InitialCacheFiles
    /\ AcqIdle
    /\ BtStart(<<1>>)
    /\ SrcIdle

Step(p) ==
    \/ Start(p)
    \/ CallBankOfIsrael(p)
    \/ CallExchangerateHost(p)
    \/ CallExchangerateApi(p)
    \/ CallHistory(p)
    \/ OpenCache(p)
    \/ DumpCache(p)
    \/ LoadCache(p)

Next == Tick \/ \E p \in SeqProcs : Step(p)
Spec == Init /\ [][Next]_vars

\* Each statement of a refresh that has started is executed: every call a
\* refresh makes returns or raises (the HTTP calls carry a timeout)
Fairness == \A p \in SeqProcs : WF_vars(Step(p))
SpecLive == Init /\ [][Next]_vars /\ Fairness

\* Two refreshes at once, on a cache that holds a complete record
InitConc == Init /\ cacheFile = OldRecord
NextConc == \E p \in Procs : Step(p)
SpecConc == InitConc /\ [][NextConc]_vars

\* Two refreshes, the second after the first has returned, with no cache file
\* to begin with
InitTwice == Init /\ cacheFile = Missing
NextTwice ==
    \/ Tick
    \/ pc[1] # "done" /\ Step(1)
    \/ pc[1] = "done" /\ pc[2] # "done" /\ Step(2)
SpecTwice == InitTwice /\ [][NextTwice]_vars

\* The backtest on every series of 1..MaxLen rates
InitBT ==
    /\ now = 0
    /\ cacheFile = Missing
    /\ AcqIdle
    /\ BtInit
    /\ SrcIdle
NextBT == Indicators \/ LoopRow \/ Finish
SpecBT == InitBT /\ [][NextBT]_vars

\* The indicator columns of every series of 1..MaxIndLen rates
IndVals == {1, 2}
InitInd ==
    /\ now = 0
    /\ cacheFile = Missing
    /\ AcqIdle
    /\ \E s \in UNION {[1..n -> IndVals] : n \in 1..MaxIndLen} : BtStart(s)
    /\ SrcIdle
NextInd == Indicators
SpecInd == InitInd /\ [][NextInd]_vars

\* Every rate source on every response
InitSrc ==
    /\ now \in 0..MaxNow
    /\ cacheFile = Missing
    /\ AcqIdle
    /\ BtStart(<<1>>)
    /\ request \in Requests
    /\ reply = NoReply
NextSrc == CallSource
SpecSrc == InitSrc /\ [][NextSrc]_vars

(***************************************************************************)
(* Vocabulary of the properties                                            *)
(***************************************************************************)
Called(p, fn) == \E i \in 1..Len(calls[p]) : calls[p][i].fn = fn

\* the history fetch of this cycle gave no frame
HistoryFailed(p) == df[p].none

\* a file Cache.load can use: JSON with the keys it reads and an ISO timestamp
CacheUsable(f) ==
    /\ f.kind = "json"
    /\ {"data", "timestamp", "current_rate"} \subseteq f.keys
    /\ f.timestamp.iso

DemoResults == {generate_demo_data(t) : t \in 0..now}

IsLabel(status) ==
    /\ status.icon \in {"check", "cross", "warning", "chart"}
    /\ status.text # ""

C2_StrictPriority ==
    \A p \in Procs :
        pc[p] = "done" =>
            /\ ~HistoryFailed(p) =>
                  /\ ret[p].tier = "live"
                  /\ ret[p].df = df[p].rows
                  /\ ~Called(p, "load_cached_data")
                  /\ ~Called(p, "generate_demo_data")
            /\ Called(p, "load_cached_data") => HistoryFailed(p)
            /\ Called(p, "generate_demo_data") =>
                  Called(p, "load_cached_data") /\ ~CacheUsable(cacheFile)

(***************************************************************************)
(* C3: get_current_rate calls the Bank of Israel, ExchangeRate.host and    *)
(* ExchangeRate-API one after another in that order, stops at the first    *)
(* result that is not absent and returns it; with all three absent it      *)
(* returns (None, None, "All APIs unavailable") and raises nothing.        *)
(***************************************************************************)
ProviderOrder ==
    <<"fetch_from_bank_of_israel", "fetch_from_exchangerate_host",
      "fetch_from_exchangerate_api">>

IsProviderCall(c) == c.fn \in ProviderNames
ProviderCalls(p) == SelectSeq(calls[p], IsProviderCall)
Absent(c) == c.res.val.rate.none
InGetCurrentRate(p) == pc[p] \in {"boi", "host", "api"}

C3_FirstNonAbsentInOrder ==
    \A p \in Procs :
        LET pcs == ProviderCalls(p)
            n == Len(pcs)
        IN  /\ n <= 3
            /\ \A i \in 1..n : pcs[i].fn = ProviderOrder[i] /\ ~pcs[i].res.raised
            /\ \A i \in 1..(n - 1) : Absent(pcs[i])
            /\ pc[p] = "boi" => n = 0
            /\ pc[p] = "host" => n = 1 /\ Absent(pcs[1])
            /\ pc[p] = "api" => n = 2 /\ Absent(pcs[2])
            /\ (pc[p] # "idle" /\ ~InGetCurrentRate(p)) =>
                  /\ n >= 1
                  /\ IF Absent(pcs[n])
                     THEN n = 3 /\ current[p] = [rate |-> None, date |-> None,
                                                 status |-> AllUnavailable]
                     ELSE /\ current[p].rate = pcs[n].res.val.rate
                          /\ current[p].date = pcs[n].res.val.date
                          /\ current[p].status.icon = "check"
                          /\ current[p].status.text = pcs[n].res.val.source

C3_Witness ==
    /\ pc[1] = "hist"
    /\ Len(calls[1]) = 2
    /\ Absent(calls[1][1])
    /\ ~Absent(calls[1][2])
    /\ current[1].status.text = "ExchangeRate.host"

(***************************************************************************)
(* C4: the trade list never holds two consecutive trades with the same     *)
(* action.                                                                 *)
(***************************************************************************)
C4_TradesAlternate ==
    \A i \in 1..(Len(trades) - 1) : trades[i].action # trades[i + 1].action

C4_Witness ==
    /\ btpc = "done"
    /\ Len(trades) >= 3
    /\ trades[1].action = "BUY"
    /\ trades[2].action = "SELL"
    /\ trades[3].action = "BUY"

(***************************************************************************)
(* C5: with two refreshes running at once, the cache load of one never     *)
(* reads a file the save of the other has truncated and not yet finished   *)
(* writing.                                                                *)
(***************************************************************************)
C5_LoadNeverSeesPartialWrite ==
    [][\A p \in Procs :
          (pc[p] = "load" /\ pc'[p] = "done") =>
              ~(\E q \in Procs \ {p} : cacheFile = Partial(q))]_vars

(***************************************************************************)
(* C6: at the end of a cycle whose history fetch succeeded the cache holds *)
(* the complete record of that cycle; a cycle that returns cached or demo  *)
(* data has not written to the cache.                                      *)
(***************************************************************************)
CycleRecord(p, f) ==
    /\ f.kind = "json"
    /\ f.keys = AllKeys
    /\ f.timestamp.iso
    /\ f.timestamp.t <= now
    /\ f.data = df[p].rows
    /\ f.current_rate = ret[p].current_rate
    /\ f.current_date = IF current[p].date.none THEN Last(df[p].rows).Date
                        ELSE current[p].date.v

C6_CacheHoldsLastSuccess ==
    \A p \in SeqProcs :
        pc[p] = "done" =>
            /\ ~HistoryFailed(p) => ret[p].tier = "live" /\ CycleRecord(p, cacheFile)
            /\ ret[p].tier \in {"cache", "demo"} => ~Called(p, "open")

(***************************************************************************)
(* C7: load_cached_data fails soft: a cache file that is missing, is not   *)
(* JSON, lacks data, timestamp or current_rate, or has a timestamp that is *)
(* no date gives no error to the caller, and the demo tier is used.        *)
(***************************************************************************)
C7_LoadFailsSoft ==
    \A p \in SeqProcs :
        (pc[p] = "done" /\ Called(p, "load_cached_data") /\ ~CacheUsable(cacheFile))
            => /\ ret[p].tier = "demo"
               /\ ret[p] \in DemoResults
               /\ Called(p, "generate_demo_data")

C7_Witness ==
    /\ pc[1] = "done"
    /\ Called(1, "load_cached_data")
    /\ cacheFile.kind = "json"
    /\ ~cacheFile.timestamp.iso
    /\ ret[1].tier = "demo"

(***************************************************************************)
(* C8: every rate source turns every failure into an absent result and     *)
(* raises nothing.                                                         *)
(***************************************************************************)
IsHistory == request.fn = "fetch_historical_data"
AbsentReply == reply.val = (IF IsHistory THEN HistNone ELSE NoneTriple)

TransportError == request.resp.exc
BadStatus == ~request.resp.exc /\ request.resp.status # 200
Malformed == request.resp.status = 200 /\ ~request.resp.wellformed
\* the payload parses and the rate is not in it
MissingRate ==
    /\ request.resp.wellformed
    /\ IF IsHistory
       THEN ~request.resp.has_rates \/ \A e \in request.resp.rates : e.ils.none
       ELSE request.resp.rate.none
\* the payload parses and some field the source reads is not in it
MissingField ==
    /\ request.resp.wellformed
    /\ IF IsHistory
       THEN ~request.resp.has_rates \/ \E e \in request.resp.rates : e.ils.none
       ELSE request.resp.rate.none \/ request.resp.date.none

\* as claimed: any missing field is a failure, and every failure gives absent
C8_EveryFailureIsAbsent ==
    reply.done =>
        /\ ~reply.raised
        /\ (TransportError \/ BadStatus \/ Malformed \/ MissingField) => AbsentReply

\* as the code has it: a missing rate gives absent; a missing date is replaced
\* by today's date, a history date without 'ILS' is skipped
C8_FailureIsAbsentDateDefaults ==
    reply.done =>
        /\ ~reply.raised
        /\ (TransportError \/ BadStatus \/ Malformed \/ MissingRate) => AbsentReply
        /\ (~IsHistory /\ ~AbsentReply /\ request.resp.date.none)
              => reply.val.date = Val(now) /\ reply.val.rate = request.resp.rate
        /\ (IsHistory /\ ~AbsentReply)
              => \A i \in 1..Len(reply.val.df.rows) :
                    [date |-> reply.val.df.rows[i].Date,
                     ils |-> Val(reply.val.df.rows[i].Rate)] \in request.resp.rates

C8_Witness ==
    /\ reply.done
    /\ request.fn = "fetch_from_bank_of_israel"
    /\ TransportError
    /\ AbsentReply

(***************************************************************************)
(* C9: the status label names the tier the returned series came from: a    *)
(* provider label exactly with the live series, the cached-data label      *)
(* exactly with the cached series, the demo label exactly with demo data.  *)
(***************************************************************************)
C9_LabelNamesTier ==
    \A p \in Procs :
        pc[p] = "done" =>
            /\ ret[p].tier = "live" <=> ret[p].status.icon = "check"
            /\ ret[p].tier = "cache" <=> ret[p].status = CachedStatus(ret[p].status.age.v)
            /\ ret[p].tier = "demo" <=> ret[p].status = DemoStatus

(***************************************************************************)
(* C10: on a series whose SMA_7 equals its SMA_14 at every row,            *)
(* calculate_trading_profit records no trade and every portfolio value,    *)
(* and the final value, is initial_usd.                                    *)
(***************************************************************************)
FlatMarket == \A i \in 1..Len(rates) : SMA_7[i] = SMA_14[i]

C10_FlatMarketNoTrades ==
    (btpc = "done" /\ FlatMarket) =>
        /\ trades = <<>>
        /\ Len(portfolio_value) = Len(rates)
        /\ \A i \in 1..Len(rates) : portfolio_value[i] = Frac(initial_usd, 1)
        /\ profit_usd = Frac(initial_usd, 1)

C10_Witness ==
    /\ btpc = "done"
    /\ FlatMarket
    /\ Len(rates) > 7
    /\ trades = <<>>

(***************************************************************************)
(* C11: the loop body records a BUY at a row exactly when the row is not   *)
(* the first, SMA_7 is above SMA_14 there and was not above it on the row  *)
(* before, and the USD balance is positive; a SELL exactly when the row is *)
(* not the first, SMA_7 is below SMA_14 there and was not below it on the  *)
(* row before, and the ILS balance is positive.  It records at most one    *)
(* trade per row, none on the first row, and the balance a trade converts  *)
(* is 0 after it.                                                          *)
(***************************************************************************)
AtRow == btpc = "loop" /\ index <= Len(rates)

UpEdge(i) ==
    /\ i > 1
    /\ FracLess(SMA_14[i], SMA_7[i])
    /\ ~FracLess(SMA_14[i - 1], SMA_7[i - 1])

DownEdge(i) ==
    /\ i > 1
    /\ FracLess(SMA_7[i], SMA_14[i])
    /\ ~FracLess(SMA_7[i - 1], SMA_14[i - 1])

Recorded(action, i) ==
    /\ Len(trades') = Len(trades) + 1
    /\ SubSeq(trades', 1, Len(trades)) = trades
    /\ Last(trades').action = action
    /\ Last(trades').date = i
    /\ Last(trades').rate = rates[i]

C11_TradeExactlyOnCrossoverEdge ==
    [][AtRow =>
          /\ Recorded("BUY", index) <=> (UpEdge(index) /\ FracLess(Zero, usd_balance))
          /\ Recorded("SELL", index) <=> (DownEdge(index) /\ FracLess(Zero, nis_balance))
          /\ trades' = trades \/ Recorded("BUY", index) \/ Recorded("SELL", index)
          /\ index = 1 => trades' = trades
          /\ Recorded("BUY", index) => usd_balance' = Zero /\ FracLess(Zero, nis_balance')
          /\ Recorded("SELL", index) => nis_balance' = Zero /\ FracLess(Zero, usd_balance')
          /\ trades' = trades => usd_balance' = usd_balance /\ nis_balance' = nis_balance
      ]_vars

\* a run with a BUY and a SELL, and a row where SMA_7 is above SMA_14 as on the
\* row before it, with no trade on it
C11_Witness ==
    /\ btpc = "done"
    /\ Len(trades) = 2
    /\ trades[1].action = "BUY" /\ trades[1].amount_usd = Frac(initial_usd, 1)
    /\ trades[2].action = "SELL"
    /\ \E i \in 2..Len(rates) :
          /\ FracLess(SMA_14[i], SMA_7[i])
          /\ FracLess(SMA_14[i - 1], SMA_7[i - 1])
          /\ \A k \in 1..Len(trades) : trades[k].date # i

(***************************************************************************)
(* C12: once the indicator columns are computed, SMA_7 and SMA_14 have one *)
(* entry per row of the series, SMA_7 at a row is the mean of the rates of *)
(* that row and the up to 6 rows before it, SMA_14 the mean of the rates   *)
(* of that row and the up to 13 rows before it: no row after it counts,    *)
(* and a window cut short by the start of the series is divided by the     *)
(* number of rows it has.                                                  *)
(***************************************************************************)
RECURSIVE Total(_, _)
Total(lo, hi) == IF lo > hi THEN 0 ELSE rates[lo] + Total(lo + 1, hi)

IsMeanOf(m, lo, hi) == m.n * (hi - lo + 1) = m.d * Total(lo, hi)

C12_TrailingWindowMeans ==
    btpc # "ready" =>
        /\ Len(SMA_7) = Len(rates)
        /\ Len(SMA_14) = Len(rates)
        /\ \A i \in 1..Len(rates) :
              /\ IsMeanOf(SMA_7[i], IF i > 7 THEN i - 6 ELSE 1, i)
              /\ IsMeanOf(SMA_14[i], IF i > 14 THEN i - 13 ELSE 1, i)

\* 15 rows, the first rate 2 and the others 1: the first row is in the short
\* window up to row 7 and in the long one up to row 14
C12_Witness ==
    /\ btpc = "loop"
    /\ Len(rates) = 15
    /\ rates[1] = 2
    /\ \A i \in 2..15 : rates[i] = 1
    /\ SMA_7[7] = Frac(8, 7) /\ SMA_7[8] = Frac(1, 1)
    /\ SMA_14[14] = Frac(15, 14) /\ SMA_14[15] = Frac(1, 1)

(***************************************************************************)
(* C13: two calls of generate_demo_data, made at any two times, return the *)
(* same series: the same date and the same rate at every index.            *)
(***************************************************************************)
BothDemo == pc[1] = "done" /\ pc[2] = "done"
            /\ ret[1].tier = "demo" /\ ret[2].tier = "demo"

\* as claimed
C13_DemoSameSeriesAtAnyTime ==
    BothDemo => ret[1].df = ret[2].df

ConsecutiveDays(rows) ==
    \A i \in 1..Len(rows) : rows[i].Date = rows[1].Date + (i - 1)

\* as the code has it: the rates, the length, the current rate and the label
\* are the same; the dates are consecutive days that end the day before the
\* call, so the series are the same exactly when the calls are on the same day
C13_DemoSameRatesDatesFollowClock ==
    BothDemo =>
        /\ Len(ret[1].df) = DemoDays /\ Len(ret[2].df) = DemoDays
        /\ \A i \in 1..DemoDays : ret[1].df[i].Rate = ret[2].df[i].Rate
        /\ ret[1].current_rate = ret[2].current_rate
        /\ ret[1].status = ret[2].status
        /\ ConsecutiveDays(ret[1].df) /\ ConsecutiveDays(ret[2].df)
        /\ Last(ret[1].df).Date < Last(ret[2].df).Date + 1
        /\ Last(ret[2].df).Date < now
        /\ (ret[1].df = ret[2].df) <=> (ret[1].df[1].Date = ret[2].df[1].Date)

\* the second call a day after the first
C13_Witness ==
    /\ BothDemo
    /\ ret[2].df[1].Date = ret[1].df[1].Date + 1
    /\ ret[2].df[DemoDays].Rate = ret[1].df[DemoDays].Rate

(***************************************************************************)
(* C14: when fetch_historical_data gave a non-empty frame, the current     *)
(* rate fetch_real_exchange_rates returns, and the current_rate of the     *)
(* cache record, is the rate of the provider get_current_rate stopped at,  *)
(* or, with all three providers absent, the rate of the last row of the    *)
(* frame.                                                                  *)
(***************************************************************************)
ChainRate(p) ==
    LET pcs == ProviderCalls(p)
    IN  IF Absent(Last(pcs)) THEN Last(df[p].rows).Rate
        ELSE Last(pcs).res.val.rate.v

C14_CurrentRateFromChainElseLastRow ==
    \A p \in SeqProcs :
        (pc[p] = "done" /\ ~HistoryFailed(p)) =>
            /\ ret[p].current_rate = ChainRate(p)
            /\ cacheFile.kind = "json"
            /\ cacheFile.current_rate = ChainRate(p)

(***************************************************************************)
(* C15: on a series of at most 7 rows SMA_7 equals SMA_14 at every row,    *)
(* calculate_trading_profit records no trade and every portfolio value,    *)
(* and the final value, is initial_usd.                                    *)
(***************************************************************************)
C15_ShortSeriesNoTrades ==
    (btpc # "ready" /\ Len(rates) <= 7) =>
        /\ \A i \in 1..Len(rates) : SMA_7[i] = SMA_14[i]
        /\ trades = <<>>
        /\ \A i \in 1..Len(portfolio_value) : portfolio_value[i] = Frac(initial_usd, 1)
        /\ btpc = "done" =>
              /\ Len(portfolio_value) = Len(rates)
              /\ profit_usd = Frac(initial_usd, 1)

C15_Witness ==
    /\ btpc = "done"
    /\ rates = FiveDays
    /\ SMA_7[5] = Frac(30240, 1)
    /\ trades = <<>>
    /\ Len(portfolio_value) = 5

(***************************************************************************)
(* C16: each pass of the loop appends one value to portfolio_value, after  *)
(* the values of the rows before it, and that value is usd_balance +       *)
(* nis_balance / rate of the row, with the balances as the pass leaves     *)
(* them; the list returned has one value per row.                          *)
(***************************************************************************)
C16_OneValuePerRow ==
    [][/\ AtRow =>
             /\ Len(portfolio_value) = index - 1
             /\ portfolio_value' =
                    Append(portfolio_value,
                           FloatAdd(usd_balance', FloatDiv(nis_balance', rates[index])))
       /\ btpc' = "done" => Len(portfolio_value') = Len(rates)
      ]_vars

\* a run that ends holding ILS after one BUY: the last value is the ILS
\* balance at the last rate
C16_Witness ==
    /\ btpc = "done"
    /\ Len(trades) = 1
    /\ Len(portfolio_value) = Len(rates)
    /\ nis_balance # Zero
    /\ Last(portfolio_value) = FloatDiv(nis_balance, Last(rates))
    /\ Last(portfolio_value) # Frac(initial_usd, 1)

(***************************************************************************)
(* C17: a refresh that has entered fetch_real_exchange_rates returns.  On  *)
(* the way it calls each current-rate provider at most once (at most three *)
(* calls), fetch_historical_data at most once, load_cached_data at most    *)
(* once and generate_demo_data at most once, and control only moves        *)
(* forward: providers, history, cache write, cache load, return.           *)
(***************************************************************************)
Count(p, fn) == Len(SelectSeq(calls[p], LAMBDA c : c.fn = fn))

BoundedAttempts ==
    \A p \in SeqProcs :
        /\ Len(ProviderCalls(p)) <= 3
        /\ \A fn \in ProviderNames \cup {"fetch_historical_data", "load_cached_data",
                                          "generate_demo_data"} : Count(p, fn) <= 1

Rank(l) ==
    CASE l = "idle" -> 0 [] l = "boi" -> 1 [] l = "host" -> 2 [] l = "api" -> 3
      [] l = "hist" -> 4 [] l = "open" -> 5 [] l = "dump" -> 6 [] l = "load" -> 7
      [] l = "done" -> 8

OnlyForward ==
    \A p \in SeqProcs :
        \/ Rank(pc'[p]) > Rank(pc[p])
        \/ pc'[p] = pc[p] /\ calls'[p] = calls[p]
        \/ pc[p] \in {"idle", "done"} /\ pc'[p] = "boi"

InCycle(p) == pc[p] \notin {"idle", "done"}

C17_CycleTerminates ==
    /\ []BoundedAttempts
    /\ [][OnlyForward]_vars
    /\ \A p \in SeqProcs : InCycle(p) ~> (pc[p] = "done" /\ Len(ret[p].df) >= 1)

\* every tier was tried: three providers absent, the history fetched, the
\* cache write failed, the cache load failed, the demo series returned
C17_Witness ==
    /\ pc[1] = "done"
    /\ Len(calls[1]) = 8
    /\ Count(1, "generate_demo_data") = 1
    /\ ret[1].tier = "demo"

(***************************************************************************)
(* C18: from the start of the loop to the return, one of usd_balance and   *)
(* nis_balance is positive and the other is 0, and the first trade         *)
(* recorded, if there is one, is a BUY.                                    *)
(***************************************************************************)
HoldingUsd == FracLess(Zero, usd_balance) /\ nis_balance = Zero
HoldingLocal == FracLess(Zero, nis_balance) /\ usd_balance = Zero

C18_ExactlyOneBalance ==
    btpc # "ready" =>
        /\ HoldingUsd \/ HoldingLocal
        /\ ~(HoldingUsd /\ HoldingLocal)
        /\ trades # <<>> => trades[1].action = "BUY"

\* before the return, holding ILS after a BUY, a SELL and a second BUY
C18_Witness ==
    /\ btpc = "loop"
    /\ HoldingLocal
    /\ Len(trades) = 3
    /\ trades[1].action = "BUY"

(***************************************************************************)
(* C19: when the loop comes to a row holding USD, the portfolio value of   *)
(* that row equals the value of the row before, also when a BUY is made on *)
(* the row: two adjacent values differ only if ILS was held coming to the  *)
(* later row.                                                              *)
(***************************************************************************)
\* as claimed
C19_TradeKeepsValue ==
    [][(AtRow /\ index > 1 /\ nis_balance = Zero) =>
          Last(portfolio_value') = Last(portfolio_value)]_vars

AbsDiff(a, b) ==
    IF FracLess(a, b) THEN Frac(b.n * a.d - a.n * b.d, a.d * b.d)
    ELSE Frac(a.n * b.d - b.n * a.d, a.d * b.d)

\* |a - b| <= 3 * |b| / 2^Mantissa: what two roundings can add up to
WithinTwoRoundings(a, b) ==
    ~FracLess(FracMul(b, 3), FracMul(AbsDiff(a, b), MantissaTop))

\* as the code has it: with no trade on the row the two values are equal; on
\* a BUY the value is (usd_balance * rate) / rate as floats compute it, equal
\* to the value before up to the rounding of the product and of the quotient
C19_TradeKeepsValueUpToRounding ==
    [][(AtRow /\ index > 1 /\ nis_balance = Zero) =>
          /\ trades' = trades => Last(portfolio_value') = Last(portfolio_value)
          /\ Last(portfolio_value) = usd_balance
          /\ trades' # trades =>
                /\ Last(portfolio_value') = FloatDiv(FloatMul(usd_balance, rates[index]),
                                                      rates[index])
                /\ WithinTwoRoundings(Last(portfolio_value'), Last(portfolio_value))
      ]_vars

\* a BUY on the row just passed, its value off the value of the row before
C19_Witness ==
    /\ btpc = "loop"
    /\ index > 2
    /\ Len(trades) = 1
    /\ trades[1].date = index - 1
    /\ portfolio_value[index - 1] # portfolio_value[index - 2]
    /\ WithinTwoRoundings(portfolio_value[index - 1], portfolio_value[index - 2])

====
